---- MODULE Spec2Model ----
(***************************************************************************)
(* Model of yahoo_finance.py: the crumb/cookie bootstrap, the bounded      *)
(* retry loop of load_csv_data and the CSV parsing and price adjustment of *)
(* quotes_historical_yahoo_ochl.                                           *)
(*                                                                         *)
(* Text is a sequence of one-character strings, so that str.split, the     *)
(* substring test, int() and float() are computed and not assumed.         *)
(***************************************************************************)
EXTENDS Integers, Sequences, FiniteSets, TLC

VARIABLES
    entry,         \* which function the caller invoked
    arg_rep_time,  \* the rep_time argument the caller passed to it
    adjusted,      \* quotes_historical_yahoo_ochl arguments
    asobject,
    ochl,
    pc,            \* position of the call
    rep_time,      \* load_csv_data's own rep_time parameter
    header,        \* load_csv_data locals
    crumb,
    cookies,
    acquisitions,  \* number of calls of _get_crumbs_and_cookies so far
    url,
    website,       \* text of the last data-endpoint response
    log,           \* the data-endpoint requests issued, oldest first
    fh,            \* value returned by load_csv_data
    d,             \* the structured array of quotes_historical_yahoo_ochl
    ret,           \* value returned by quotes_historical_yahoo_ochl
    exc            \* the exception that left the call, if any

vars == <<entry, arg_rep_time, adjusted, asobject, ochl, pc, rep_time, header,
          crumb, cookies, acquisitions, url, website, log, fh, d, ret, exc>>

-----------------------------------------------------------------------------
(* Bounds of the model *)

\* largest rep_time the caller passes
MaxRep == 3
\* largest number of data lines in a multi-line response body
MaxLines == 3

-----------------------------------------------------------------------------
(* Text *)

None == "None"

NL == "\n"
COMMA == ","
DASH == "-"

\* "Unauthorized"
Unauthorized == <<"U","n","a","u","t","h","o","r","i","z","e","d">>
\* "null"
NullText == <<"n","u","l","l">>

\* pat in text
Contains(text, pat) ==
    \E i \in 1..(Len(text) - Len(pat) + 1) :
        SubSeq(text, i, i + Len(pat) - 1) = pat

\* text.split(sep) for a one-character separator
RECURSIVE Split(_, _)
Split(text, sep) ==
    IF \A i \in 1..Len(text) : text[i] # sep
    THEN <<text>>
    ELSE LET i == CHOOSE k \in 1..Len(text) :
                      text[k] = sep /\ \A j \in 1..(k - 1) : text[j] # sep
         IN  <<SubSeq(text, 1, i - 1)>> \o Split(SubSeq(text, i + 1, Len(text)), sep)

\* sep.join(parts): how the endpoint's text is put together
RECURSIVE Join(_, _)
Join(parts, sep) ==
    IF parts = <<>> THEN <<>>
    ELSE IF Len(parts) = 1 THEN parts[1]
    ELSE parts[1] \o <<sep>> \o Join(Tail(parts), sep)

\* seq[:-1]
DropLast(seq) == SubSeq(seq, 1, Len(seq) - 1)

\* seq[1:]
DropFirst(seq) == SubSeq(seq, 2, Len(seq))

\* reversed copy of seq (list.reverse)
Reverse(seq) == [i \in 1..Len(seq) |-> seq[Len(seq) + 1 - i]]

-----------------------------------------------------------------------------
(* _get_crumbs_and_cookies *)

HEADER == "header"
COOKIES == "cookies"

\* what re.findall can find in the history page: no crumb, one, or several
CrumbMatches == { <<>>, <<"A">>, <<"A", "B">> }

\* the (header, crumb, cookies) tuple returned for a page with these matches
get_crumbs_and_cookies(matches) ==
    IF matches = <<>>
    THEN [header |-> None, crumb |-> None, cookies |-> None]
    ELSE [header |-> HEADER, crumb |-> matches[1], cookies |-> COOKIES]

-----------------------------------------------------------------------------
(* load_csv_data *)

STOCK == "ABC"

NoUrl == [stock |-> None, crumb |-> None, bound |-> FALSE]
NoExc == [type |-> "none", msg |-> <<>>, url |-> NoUrl, code |-> <<>>, hdrs |-> None]

\* the download url: str.format writes an absent crumb as the text None
MakeUrl(stock, c) == [stock |-> stock, crumb |-> c, bound |-> TRUE]

\* the loop stopping one pass early
InRange_OneShort(n, r) == n < r - 1

\* for _ in range(rep_time), after n passes
InRange(n, r) == n < r

\* the break condition without its test of the crumb
Accepted_AnyCrumb(text, c) == ~Contains(text, Unauthorized)

\* the break condition of the retry loop
Accepted(text, c) == ~Contains(text, Unauthorized) /\ c # None

\* website.text.split('\n')[:-1]
ReturnedLines(text) == DropLast(Split(text, NL))

\* the else branch testing the header of the last request in place of the crumb
Exhausted_ByRequest(stock, c, u, site, hdr) ==
    IF u.crumb = None
    THEN [type |-> "ValueError", msg |-> <<"could not find the stock:", stock>>,
          url |-> NoUrl, code |-> <<>>, hdrs |-> None]
    ELSE [type |-> "HTTPError", msg |-> <<"Unauthorized">>,
          url |-> u, code |-> site, hdrs |-> hdr]

\* the else branch of the for loop
Exhausted(stock, c, u, site, hdr) ==
    IF c = None
    THEN [type |-> "ValueError", msg |-> <<"could not find the stock:", stock>>,
          url |-> NoUrl, code |-> <<>>, hdrs |-> None]
    ELSE IF ~u.bound
    THEN \* range(rep_time) was empty: url and website were never assigned
         [type |-> "UnboundLocalError", msg |-> <<>>,
          url |-> NoUrl, code |-> <<>>, hdrs |-> None]
    ELSE [type |-> "HTTPError", msg |-> <<"Unauthorized">>,
          url |-> u, code |-> site, hdrs |-> hdr]

-----------------------------------------------------------------------------
(* Numbers *)

DigitVal == [c \in {"0","1","2","3","4","5","6","7","8","9"} |->
                CASE c = "0" -> 0 [] c = "1" -> 1 [] c = "2" -> 2 [] c = "3" -> 3
                  [] c = "4" -> 4 [] c = "5" -> 5 [] c = "6" -> 6 [] c = "7" -> 7
                  [] c = "8" -> 8 [] c = "9" -> 9]

\* the texts int() and float() accept here: plain runs of decimal digits
IsDigits(text) == Len(text) > 0 /\ \A i \in 1..Len(text) : text[i] \in DOMAIN DigitVal

RECURSIVE IntOf(_)
IntOf(text) ==
    IF text = <<>> THEN 0
    ELSE 10 * IntOf(DropLast(text)) + DigitVal[text[Len(text)]]

RECURSIVE Gcd(_, _)
Gcd(a, b) == IF b = 0 THEN a ELSE Gcd(b, a % b)

\* A float: a finite value n/dn in lowest terms, nan, or inf.  The prices of
\* the model are 0, 1 and 2, so every quotient and product below is a dyadic
\* rational and binary floating point computes it exactly.
Num(n, dn) == LET g == Gcd(n, dn) IN
              IF n = 0 THEN [k |-> "num", n |-> 0, dn |-> 1]
              ELSE [k |-> "num", n |-> n \div g, dn |-> dn \div g]
NaN == [k |-> "nan", n |-> 0, dn |-> 0]
Inf == [k |-> "inf", n |-> 0, dn |-> 0]
Zero == Num(0, 1)

\* numpy's a / b on floats: x/0 is inf, 0/0 is nan (a warning, not an error)
FDiv(a, b) ==
    IF a.k = "nan" \/ b.k = "nan" THEN NaN
    ELSE IF a.k = "inf" THEN (IF b.k = "inf" THEN NaN ELSE Inf)
    ELSE IF b.k = "inf" THEN Zero
    ELSE IF b.n = 0 THEN (IF a.n = 0 THEN NaN ELSE Inf)
    ELSE Num(a.n * b.dn, a.dn * b.n)

\* numpy's a * b on floats
FMul(a, b) ==
    IF a.k = "nan" \/ b.k = "nan" THEN NaN
    ELSE IF a.k = "inf" THEN (IF b.n = 0 /\ b.k = "num" THEN NaN ELSE Inf)
    ELSE IF b.k = "inf" THEN (IF a.n = 0 THEN NaN ELSE Inf)
    ELSE Num(a.n * b.n, a.dn * b.dn)

-----------------------------------------------------------------------------
(* Dates *)

IsLeap(y) == y % 4 = 0 /\ (y % 100 # 0 \/ y % 400 = 0)

DaysInMonth(y, m) ==
    IF m = 2 THEN (IF IsLeap(y) THEN 29 ELSE 28)
    ELSE IF m \in {4, 6, 9, 11} THEN 30 ELSE 31

RECURSIVE DaysBeforeMonth(_, _)
DaysBeforeMonth(y, m) ==
    IF m = 1 THEN 0 ELSE DaysBeforeMonth(y, m - 1) + DaysInMonth(y, m - 1)

\* datetime.date(y, m, day) accepts exactly the days of the calendar
ValidDate(y, m, day) ==
    /\ y \in 1..9999
    /\ m \in 1..12
    /\ day \in 1..DaysInMonth(y, m)

\* date.toordinal(): 0001-01-01 is day 1
ToOrdinal(y, m, day) ==
    LET p == y - 1
    IN  p * 365 + (p \div 4) - (p \div 100) + (p \div 400)
        + DaysBeforeMonth(y, m) + day

\* date2num(dt): days since 1970-01-01, whose ordinal is 719163
date2num(dt) == ToOrdinal(dt[1], dt[2], dt[3]) - 719163

-----------------------------------------------------------------------------
(* quotes_historical_yahoo_ochl: one line *)

NoRow == [date |-> <<0, 0, 0>>, year |-> 0, month |-> 0, day |-> 0, d |-> 0,
          open |-> Zero, close |-> Zero, high |-> Zero, low |-> Zero,
          volume |-> Zero, aclose |-> Zero]

Skip == [kind |-> "skip", type |-> "none", row |-> NoRow]
Raise(type) == [kind |-> "raise", type |-> type, row |-> NoRow]
Row(r) == [kind |-> "row", type |-> "none", row |-> r]

\* null read as nan in place of zero
NumericOf_NullIsNaN(val) == IF val = NullText THEN NaN ELSE Num(IntOf(val), 1)

\* 0 if val=='null' else float(val)
IsNumeric(val) == val = NullText \/ IsDigits(val)
NumericOf(val) == IF val = NullText THEN Zero ELSE Num(IntOf(val), 1)

\* the test letting longer lines through
Malformed_OnlyShort(vals) == Len(vals) < 7

\* the continue of the loop body
Malformed(vals) == Len(vals) # 7

\* the body of the for loop, for one line of fh[1:]
ParseLine(line) ==
    LET vals == Split(line, COMMA)
        parts == Split(vals[1], DASH)
        ymd == [i \in 1..Len(parts) |-> IntOf(parts[i])]
    IN  IF Malformed(vals) THEN Skip
        ELSE IF \E i \in 1..Len(parts) : ~IsDigits(parts[i]) THEN Raise("ValueError")
        ELSE IF Len(parts) # 3 THEN Raise("TypeError")
        ELSE IF ~ValidDate(ymd[1], ymd[2], ymd[3]) THEN Raise("ValueError")
        ELSE IF \E i \in 2..7 : ~IsNumeric(vals[i]) THEN Raise("ValueError")
        ELSE Row([date |-> ymd, year |-> ymd[1], month |-> ymd[2], day |-> ymd[3],
                  d |-> date2num(ymd),
                  open |-> NumericOf(vals[2]), high |-> NumericOf(vals[3]),
                  low |-> NumericOf(vals[4]), close |-> NumericOf(vals[5]),
                  aclose |-> NumericOf(vals[6]), volume |-> NumericOf(vals[7])])

-----------------------------------------------------------------------------
(* quotes_historical_yahoo_ochl: the whole array *)

NoResult == [type |-> "none", rows |-> <<>>]

\* the for loop over fh[1:]: rows in file order, or the first exception
RECURSIVE ParseLines(_)
ParseLines(lines) ==
    IF lines = <<>> THEN NoResult
    ELSE LET first == ParseLine(lines[1])
             rest == ParseLines(Tail(lines))
         IN  IF first.kind = "raise" THEN [type |-> first.type, rows |-> <<>>]
             ELSE IF rest.type # "none" THEN rest
             ELSE IF first.kind = "skip" THEN rest
             ELSE [type |-> "none", rows |-> <<first.row>> \o rest.rows]

\* scale = aclose / close, with inf replaced by nan
Scale(r) == LET s == FDiv(r.aclose, r.close) IN IF s.k = "inf" THEN NaN ELSE s

\* the prices multiplied by the adjusted close in place of the scale
Adjust_ByAclose(r) ==
    [r EXCEPT !.open = FMul(@, r.aclose), !.high = FMul(@, r.aclose),
              !.low = FMul(@, r.aclose), !.close = FMul(@, r.aclose)]

\* open, high, low and close multiplied by the scale, in place
Adjust(r) ==
    LET s == Scale(r)
    IN  [r EXCEPT !.open = FMul(@, s), !.high = FMul(@, s),
                  !.low = FMul(@, s), !.close = FMul(@, s)]

\* results.reverse()
Ordered(rows) == Reverse(rows)

\* the array d after the optional adjustment
Structured(rows, adj) ==
    LET o == Ordered(rows)
    IN  IF adj THEN [i \in 1..Len(o) |-> Adjust(o[i])] ELSE o

\* one row of ret
RetRow(r, oc) ==
    IF oc THEN <<r.d, r.open, r.close, r.high, r.low, r.volume>>
    ELSE <<r.d, r.open, r.high, r.low, r.close, r.volume>>

\* the value returned for each asobject: False, None, anything else
Shaped(arr, asobj, oc) ==
    IF asobj = "False" THEN [shape |-> "tuples", rows |-> [i \in 1..Len(arr) |-> RetRow(arr[i], oc)]]
    ELSE IF asobj = "None" THEN [shape |-> "ndarray", rows |-> [i \in 1..Len(arr) |-> RetRow(arr[i], oc)]]
    ELSE [shape |-> "recarray", rows |-> arr]

NoRet == [shape |-> "none", rows |-> <<>>]

-----------------------------------------------------------------------------
(* The texts the data endpoint answers with *)

\* "Date,Open,High,Low,Close,Adj Close,Volume"
HeaderLine == <<"D","a","t","e",",","O","p","e","n",",","H","i","g","h",",","L","o","w",",","C","l","o","s","e",",","A","d","j"," ","C","l","o","s","e",",","V","o","l","u","m","e">>

\* "2019-12-31", "2020-01-02", "2020-03-01"
Day1 == <<"2","0","1","9","-","1","2","-","3","1">>
Day2 == <<"2","0","2","0","-","0","1","-","0","2">>
Day3 == <<"2","0","2","0","-","0","3","-","0","1">>

T0 == <<"0">>
T1 == <<"1">>
T2 == <<"2">>
Values == {NullText, T0, T1, T2}

CsvLine(fields) == Join(fields, COMMA)

\* date,open,high,low,close,adjclose,volume lines with every mix of null,
\* zero and non-zero close and adjusted close
OneDayLines ==
    { CsvLine(<<Day2, o, h, l, c, a, v>>) :
        o \in {NullText, T2}, h \in {NullText, T2}, l \in {NullText, T1},
        c \in Values, a \in Values, v \in {NullText, T2} }

\* a row per day: adjusted close half the close on the first, equal to it on
\* the other two
RowDay1 == CsvLine(<<Day1, T1, T2, T1, T2, T1, T2>>)
RowDay2 == CsvLine(<<Day2, T2, T2, T2, T2, T2, NullText>>)
RowDay3 == CsvLine(<<Day3, T1, T2, T1, T1, T1, T1>>)

\* lines of a longer body: the three rows, and lines that are not rows
SomeLines ==
    { RowDay1, RowDay2, RowDay3,
      CsvLine(<<Day3, T1, T2, T1, T2, T1>>),
      CsvLine(<<Day1, T1, T2, T1, T2, T1, T2, T0>>),
      <<>>,
      CsvLine(<<<<>>, <<>>, <<>>, <<>>, <<>>, <<>>, <<>>>>) }

SeqsUpTo(S, n) == UNION { [1..k -> S] : k \in 0..n }

\* a body: the header line and the data lines, each ended by a newline or,
\* for the last one, possibly not
Body(lines, terminated) ==
    Join(<<HeaderLine>> \o lines, NL) \o (IF terminated THEN <<NL>> ELSE <<>>)

\* "error: Unauthorized\n"
UnauthorizedBody == <<"e","r","r","o","r",":"," ","U","n","a","u","t","h","o","r","i","z","e","d","\n">>

\* what one request of the retry loop can be answered with
Responses ==
    { UnauthorizedBody,
      <<>>,
      Body(<<RowDay3, RowDay1>>, TRUE),
      Body(<<RowDay2>>, FALSE) }

\* what the accepted response can be when only the parsing is explored
ParseBodies ==
    { Body(<<l>>, t) : l \in OneDayLines, t \in BOOLEAN }
    \cup { Body(ls, t) : ls \in SeqsUpTo(SomeLines, MaxLines), t \in BOOLEAN }

-----------------------------------------------------------------------------
(* The calls *)

\* the rep_time load_csv_data runs with
LoadRepTime(e, r) == IF e = "quotes_historical_yahoo_ochl" THEN 5 ELSE r

Entries == {"load_csv_data", "quotes_historical_yahoo_ochl"}

Inputs ==
    /\ entry \in Entries
    /\ arg_rep_time \in 0..MaxRep
    /\ IF entry = "load_csv_data"
       THEN adjusted = TRUE /\ asobject = "False" /\ ochl = TRUE
       ELSE adjusted \in BOOLEAN /\ asobject \in {"False", "None", "True"} /\ ochl \in BOOLEAN

Init ==
    /\ Inputs
    /\ pc = "call"
    /\ rep_time = 0
    /\ header = None /\ crumb = None /\ cookies = None
    /\ acquisitions = 0
    /\ url = NoUrl
    /\ website = <<>>
    /\ log = <<>>
    /\ fh = <<>>
    /\ d = <<>>
    /\ ret = NoRet
    /\ exc = NoExc

\* entering load_csv_data, up to the first _get_crumbs_and_cookies
Begin ==
    /\ pc = "call"
    /\ rep_time' = LoadRepTime(entry, arg_rep_time)
    /\ \E m \in CrumbMatches :
         LET got == get_crumbs_and_cookies(m)
         IN  header' = got.header /\ crumb' = got.crumb /\ cookies' = got.cookies
    /\ acquisitions' = acquisitions + 1
    /\ pc' = "loop"
    /\ UNCHANGED <<entry, arg_rep_time, adjusted, asobject, ochl, url, website,
                   log, fh, d, ret, exc>>

\* one pass of the for loop: the request and, unless it is accepted, a new
\* crumb; an accepted response is split and returned
Attempt ==
    /\ pc = "loop"
    /\ InRange(Len(log), rep_time)
    /\ \E text \in Responses, m \in CrumbMatches :
         LET got == get_crumbs_and_cookies(m)
         IN  /\ url' = MakeUrl(STOCK, crumb)
             /\ website' = text
             /\ log' = Append(log, [crumb |-> crumb,
                                    marker |-> Contains(text, Unauthorized)])
             /\ IF Accepted(text, crumb)
                THEN /\ fh' = ReturnedLines(text)
                     /\ pc' = IF entry = "load_csv_data" THEN "done" ELSE "loaded"
                     /\ UNCHANGED <<header, crumb, cookies, acquisitions>>
                ELSE /\ header' = got.header /\ crumb' = got.crumb /\ cookies' = got.cookies
                     /\ acquisitions' = acquisitions + 1
                     /\ pc' = "loop"
                     /\ UNCHANGED fh
    /\ UNCHANGED <<entry, arg_rep_time, adjusted, asobject, ochl, rep_time, d, ret, exc>>

\* the for loop ran out: its else branch raises
GiveUp ==
    /\ pc = "loop"
    /\ ~InRange(Len(log), rep_time)
    /\ exc' = Exhausted(STOCK, crumb, url, website, header)
    /\ pc' = "load_raised"
    /\ UNCHANGED <<entry, arg_rep_time, adjusted, asobject, ochl, rep_time, header,
                   crumb, cookies, acquisitions, url, website, log, fh, d, ret>>

\* quotes_historical_yahoo_ochl after load_csv_data returned
Parse ==
    /\ pc = "loaded"
    /\ LET parsed == ParseLines(DropFirst(fh))
       IN  IF parsed.type # "none"
           THEN /\ exc' = [NoExc EXCEPT !.type = parsed.type]
                /\ pc' = "parse_raised"
                /\ UNCHANGED <<d, ret>>
           ELSE /\ d' = Structured(parsed.rows, adjusted)
                /\ ret' = Shaped(d', asobject, ochl)
                /\ pc' = "done"
                /\ UNCHANGED exc
    /\ UNCHANGED <<entry, arg_rep_time, adjusted, asobject, ochl, rep_time, header,
                   crumb, cookies, acquisitions, url, website, log, fh>>

Next == Begin \/ Attempt \/ GiveUp \/ Parse

Spec == Init /\ [][Next]_vars

\* the parsing alone: quotes_historical_yahoo_ochl at the point where
\* load_csv_data has returned the lines of a response accepted at once
ParseInit ==
    /\ entry = "quotes_historical_yahoo_ochl"
    /\ arg_rep_time = 5
    /\ adjusted \in BOOLEAN /\ asobject \in {"False", "None", "True"} /\ ochl \in BOOLEAN
    /\ pc = "loaded"
    /\ rep_time = LoadRepTime(entry, arg_rep_time)
    /\ header = HEADER /\ crumb = "A" /\ cookies = COOKIES
    /\ acquisitions = 1
    /\ url = MakeUrl(STOCK, "A")
    /\ website \in ParseBodies
    /\ log = <<[crumb |-> "A", marker |-> FALSE]>>
    /\ fh = ReturnedLines(website)
    /\ d = <<>>
    /\ ret = NoRet
    /\ exc = NoExc

ParseNext == Parse

ParseSpec == ParseInit /\ [][ParseNext]_vars

-----------------------------------------------------------------------------
(* Properties of load_csv_data *)

\* load_csv_data has returned its lines
LoadReturned == pc \in {"loaded", "done", "parse_raised"}

\* request i carried a crumb and was answered with the marker
RejectedWithCrumb(i) == log[i].crumb # None /\ log[i].marker

\* request i was not accepted
Rejected(i) == log[i].crumb = None \/ log[i].marker

\* the first two requests carried a crumb and were answered with the marker
TwoRejections ==
    /\ rep_time >= 3
    /\ Len(log) >= 2
    /\ RejectedWithCrumb(1) /\ RejectedWithCrumb(2)

\* ... and the third carried a crumb and was answered without it
ThirdSucceeds ==
    /\ TwoRejections
    /\ Len(log) >= 3
    /\ log[3].crumb # None /\ ~log[3].marker

\* C1: with a budget of at least 3, two responses with the marker followed by
\* one without it (every crumb present) make load_csv_data return the lines
\* of the third response after exactly 3 requests, without raising; after the
\* two rejections alone the call has not raised either.
C1_RetryThenSuccess ==
    /\ (TwoRejections /\ Len(log) = 2 /\ crumb # None) => (pc = "loop" /\ exc = NoExc)
    /\ ThirdSucceeds =>
          /\ Len(log) = 3
          /\ LoadReturned
          /\ pc # "load_raised"
          /\ fh = DropLast(Split(website, NL))
          /\ acquisitions = 3

C1_Witness ==
    /\ entry = "load_csv_data" /\ rep_time = 3
    /\ ThirdSucceeds
    /\ pc = "done" /\ Len(fh) = 3

\* C2: a call of quotes_historical_yahoo_ochl with a positive rep_time r
\* makes at most r data-endpoint requests.
C2_RepTimeBoundsRequests ==
    (entry = "quotes_historical_yahoo_ochl" /\ arg_rep_time >= 1)
        => Len(log) <= arg_rep_time

\* C3: the lines load_csv_data returns are those of the last response, which
\* has no marker and was requested with a crumb; every other request was
\* rejected, a request without a crumb among them whatever its answer, and
\* each rejection was followed by one more _get_crumbs_and_cookies and,
\* while the budget lasts, by the next pass of the loop.
C3_AcceptOnlyCleanWithCrumb ==
    /\ LoadReturned =>
          /\ Len(log) >= 1
          /\ ~log[Len(log)].marker /\ log[Len(log)].crumb # None
          /\ ~Contains(website, Unauthorized)
          /\ url.crumb # None /\ url.crumb = log[Len(log)].crumb
          /\ fh = DropLast(Split(website, NL))
          /\ acquisitions = Len(log)
    /\ \A i \in 1..Len(log) :
          log[i].crumb = None => (i < Len(log) \/ ~LoadReturned)
    /\ ~LoadReturned =>
          /\ \A i \in 1..Len(log) : Rejected(i)
          /\ pc # "call" => acquisitions = Len(log) + 1
          /\ (pc = "loop" /\ Len(log) < rep_time) => ENABLED Attempt

C3_Witness ==
    /\ LoadReturned
    /\ Len(log) = 3
    /\ log[1].crumb = None /\ ~log[1].marker
    /\ log[2].crumb # None /\ log[2].marker

\* C4: a positive budget used up without an accepted response ends in
\* exactly one error and no data: ValueError when the crumb of the last
\* _get_crumbs_and_cookies is absent, else HTTPError with the last request's
\* url, the last response and the header.
C4_ExhaustedRaises ==
    (pc = "load_raised" /\ rep_time >= 1) =>
        /\ Len(log) = rep_time
        /\ \A i \in 1..Len(log) : Rejected(i)
        /\ fh = <<>> /\ d = <<>> /\ ret = NoRet
        /\ exc.type \in {"ValueError", "HTTPError"}
        /\ crumb = None => exc.type = "ValueError"
        /\ crumb # None =>
              /\ exc.type = "HTTPError"
              /\ exc.url = [stock |-> STOCK, crumb |-> log[Len(log)].crumb, bound |-> TRUE]
              /\ exc.code = website
              /\ exc.hdrs = header

C4_Witness ==
    /\ pc = "load_raised" /\ rep_time = 2
    /\ exc.type = "HTTPError"
    /\ log[2].crumb = None

\* C5: load_csv_data raises HTTPError only if some request that carried a
\* crumb was answered with the marker.
C5_HTTPErrorOnlyAfterRejectedCrumb ==
    (pc = "load_raised" /\ exc.type = "HTTPError")
        => \E i \in 1..Len(log) : RejectedWithCrumb(i)

\* C6: the returned lines are the lines of the body with only a trailing
\* empty line removed, so the last line of a body that does not end with a
\* newline is among them.
C6_OnlyTrailingEmptyLineRemoved ==
    LoadReturned =>
        LET all == Split(website, NL)
        IN  fh = IF all[Len(all)] = <<>> THEN DropLast(all) ELSE all

-----------------------------------------------------------------------------
(* Properties of quotes_historical_yahoo_ochl *)

\* the data lines handed to the loop
DataLines == DropFirst(fh)

HasSevenFields(line) == Len(Split(line, COMMA)) = 7

\* the 7-field data lines, in file order
SevenFieldLines == SelectSeq(DataLines, HasSevenFields)

\* a 7-field line with a calendar date and six numbers or nulls
WellFormed(line) ==
    LET vals == Split(line, COMMA)
        parts == Split(vals[1], DASH)
    IN  /\ Len(vals) = 7
        /\ Len(parts) = 3
        /\ \A i \in 1..3 : IsDigits(parts[i])
        /\ ValidDate(IntOf(parts[1]), IntOf(parts[2]), IntOf(parts[3]))
        /\ \A i \in 2..7 : vals[i] = NullText \/ IsDigits(vals[i])

\* of the 7-field lines, the one that row i of the output comes from
LineOfRow(seven, i) == seven[Len(seven) + 1 - i]

\* that row as parsed, before any adjustment
ParsedRow(seven, i) == ParseLine(LineOfRow(seven, i)).row

StrictlyAscending == \A i \in 1..(Len(d) - 1) : d[i].d < d[i + 1].d

\* C7: header plus N well-formed lines with distinct dates, in any order,
\* give N rows with strictly ascending dates.
C7_AscendingWhateverTheOrder ==
    (/\ pc = "done"
     /\ \A i \in 1..Len(DataLines) : WellFormed(DataLines[i])
     /\ \A i, j \in 1..Len(DataLines) :
           i # j => Split(DataLines[i], COMMA)[1] # Split(DataLines[j], COMMA)[1])
        => (Len(d) = Len(DataLines) /\ StrictlyAscending)

\* C8: the lines without exactly 7 fields are dropped and raise nothing; the
\* rows are those of the 7-field lines, in the reverse of their order.
C8_OnlySevenFieldLinesGiveRows ==
    pc \in {"done", "parse_raised"} =>
        LET seven == SevenFieldLines
            good == \A i \in 1..Len(seven) : WellFormed(seven[i])
        IN  /\ good <=> pc = "done"
            /\ pc = "done" =>
                  /\ Len(d) = Len(seven)
                  /\ Len(ret.rows) = Len(seven)
                  /\ \A i \in 1..Len(d) :
                        LET p == ParsedRow(seven, i)
                        IN  /\ d[i].date = p.date
                            /\ d[i].d = p.d
                            /\ d[i].volume = p.volume
                            /\ d[i].aclose = p.aclose
                            /\ ~adjusted => d[i] = p

C8_Witness ==
    /\ pc = "done"
    /\ Len(DataLines) = 2
    /\ Len(Split(DataLines[1], COMMA)) = 8
    /\ Len(d) = 1

\* the prices of row r are those of the parsed row p
SamePrices(r, p) ==
    r.open = p.open /\ r.high = p.high /\ r.low = p.low /\ r.close = p.close

\* the rows as parsed, in output order
ParsedRows ==
    LET seven == SevenFieldLines
    IN  [i \in 1..Len(seven) |-> ParsedRow(seven, i)]

\* C9 as stated: adjusted close equal to close on every row, zero included,
\* makes adjusted=True return the prices of adjusted=False.
C9_IdempotentAlsoAtZero ==
    (pc = "done" /\ adjusted) =>
        LET seven == SevenFieldLines
        IN  (\A i \in 1..Len(d) :
                 LET p == ParsedRow(seven, i) IN p.aclose = p.close)
            => \A i \in 1..Len(d) : SamePrices(d[i], ParsedRow(seven, i))

\* C9 amended: adjusted close equal to close and non-zero on every row makes
\* adjusted=True return what adjusted=False returns.
C9_IdempotentAwayFromZero ==
    (pc = "done" /\ adjusted) =>
        LET seven == SevenFieldLines
        IN  (\A i \in 1..Len(d) :
                 LET p == ParsedRow(seven, i) IN p.aclose = p.close /\ p.close # Zero)
            => /\ \A i \in 1..Len(d) :
                    LET p == ParsedRow(seven, i) IN SamePrices(d[i], p) /\ d[i] = p
               /\ ret = Shaped(ParsedRows, asobject, ochl)

C9_Witness ==
    /\ pc = "done" /\ adjusted
    /\ Len(d) = 2
    /\ \A i \in 1..Len(d) :
          /\ ParsedRows[i].aclose = ParsedRows[i].close
          /\ ParsedRows[i].close # Zero
          /\ d[i].open # Zero
    /\ d[1].d < d[2].d

\* the value of column c of row r, counted as the fields of a line are
Column(r, c) ==
    CASE c = 2 -> r.open [] c = 3 -> r.high [] c = 4 -> r.low
      [] c = 5 -> r.close [] c = 6 -> r.aclose [] c = 7 -> r.volume

\* C10 as stated: a null in any numeric field gives zero in that field of the
\* returned row, adjusted or not.
C10_NullGivesZero ==
    pc = "done" =>
        LET seven == SevenFieldLines
        IN  \A i \in 1..Len(d) :
                LET vals == Split(LineOfRow(seven, i), COMMA)
                IN  \A c \in 2..7 : vals[c] = NullText => Column(d[i], c) = Zero

\* C10 amended: a null raises nothing; it gives zero in adjusted close and
\* volume always, and in open, high, low and close when the adjustment is off
\* or the row's close is not zero; with the adjustment on and a null or zero
\* close the four prices are nan.
C10_NullGivesZeroUnlessCloseIsZero ==
    pc \in {"done", "parse_raised"} =>
        LET seven == SevenFieldLines
        IN  /\ pc = "parse_raised" => \E i \in 1..Len(seven) : ~WellFormed(seven[i])
            /\ pc = "done" =>
                  \A i \in 1..Len(d) :
                      LET vals == Split(LineOfRow(seven, i), COMMA)
                          undefined == adjusted /\ (vals[5] = NullText \/ IntOf(vals[5]) = 0)
                      IN  /\ \A c \in 2..5 : vals[c] = NullText =>
                                Column(d[i], c) = IF undefined THEN NaN ELSE Zero
                          /\ \A c \in 6..7 : vals[c] = NullText => Column(d[i], c) = Zero
                          /\ (asobject # "True" /\ vals[7] = NullText)
                                => ret.rows[i][6] = Zero
                          /\ (asobject # "True" /\ vals[2] = NullText /\ ~undefined)
                                => ret.rows[i][2] = Zero

C10_Witness ==
    /\ pc = "done" /\ adjusted /\ Len(d) = 1
    /\ LET vals == Split(SevenFieldLines[1], COMMA)
       IN  vals[2] = NullText /\ vals[7] = NullText /\ vals[5] = T2 /\ vals[6] = T1
    /\ d[1].open = Zero /\ d[1].high = Num(1, 1) /\ d[1].volume = Zero

====
